---- MODULE Spec2Model ----
(***************************************************************************)
(* Model of src/main.py: the serial session of RFQ_test.                   *)
(*                                                                         *)
(* AppController runs on the foreground (GUI) thread: connect_serial,      *)
(* disconnect_serial, send_line and shutdown run one at a time, each to    *)
(* completion.  Every successful connect_serial starts one SerialReader    *)
(* thread, whose steps interleave with the steps of the foreground         *)
(* operation in progress.  Bytes are integers (their code points).         *)
(***************************************************************************)
EXTENDS Integers, Sequences, FiniteSets

\* ---------------------------------------------------------------- bounds
\* foreground operations (connect_serial, disconnect_serial, send_line,
\* shutdown) started
MaxCalls == 3
\* bytes returned by all reads of all readers together
MaxRx == 4
\* longest chunk one read returns (the code asks for up to 4096 bytes)
MaxChunk == 2

\* ------------------------------------------------------------- constants
\* FRAME_DELIM = b"\r"
FRAME_DELIM == 13

\* the bytes a device may send: the delimiter and one payload byte ("a")
Alphabet == {FRAME_DELIM, 97}

\* the lines an operator may send: "a" and "a" followed by e-acute (U+00E9)
Lines == {<<97>>, <<97, 233>>}

\* the local times datetime.now() may return, as <<hour, minute, second>>
Clock == {<<9, 5, 0>>, <<23, 59, 58>>}

\* a handle is opened by a connect_serial that follows a disconnect_serial
\* (or is the first call), so MaxCalls calls open at most MaxOpen handles
MaxOpen == (MaxCalls + 1) \div 2

Handles == 1..MaxOpen
Readers == 1..MaxOpen

VARIABLES
    serial_port,  \* AppController.serial_port: 0 is None, else a handle
    reader,       \* AppController.reader: 0 is None, else a reader
    fgpc,         \* position of the foreground thread
    fgarg,        \* the line passed to an operator-issued send_line
    calls,        \* foreground operations started so far
    log,          \* messages logged by the current or last foreground operation
    exc,          \* exception the last foreground operation ended with, or "none"
    port,         \* per handle: "unopened", "open" or "closed"
    tx,           \* per handle: the write calls made on it, in order
    rpc,          \* per reader: position of the thread ("none": not created)
    ser,          \* per reader: SerialReader.ser, the handle it reads
    stop,         \* per reader: SerialReader._stop
    buf,          \* per reader: SerialReader._buf
    rx,           \* per reader: all bytes its reads have returned, in order
    events        \* per reader: the signals it has emitted, in order

vars == <<serial_port, reader, fgpc, fgarg, calls, log, exc, port, tx,
          rpc, ser, stop, buf, rx, events>>

ctl == <<serial_port, reader, fgpc, fgarg, calls, log, exc, port, tx>>
rdr == <<rpc, ser, stop, buf, rx, events>>

\* ------------------------------------------------------- pure operations

\* all sequences over S of length lo..hi
SeqsOf(S, lo, hi) == UNION {[1..n -> S] : n \in lo..hi}

\* a find that returns the last delimiter instead of the first (rfind)
Find_Last(b) ==
    IF \E i \in 1..Len(b) : b[i] = FRAME_DELIM
    THEN (CHOOSE i \in 1..Len(b) :
              /\ b[i] = FRAME_DELIM
              /\ \A j \in (i + 1)..Len(b) : b[j] # FRAME_DELIM) - 1
    ELSE -1

\* bytearray.find(FRAME_DELIM): 0-based index of the first delimiter, or -1
Find(b) ==
    IF \E i \in 1..Len(b) : b[i] = FRAME_DELIM
    THEN (CHOOSE i \in 1..Len(b) :
              /\ b[i] = FRAME_DELIM
              /\ \A j \in 1..(i - 1) : b[j] # FRAME_DELIM) - 1
    ELSE -1

\* a frame cut one byte too far, with its delimiter (self._buf[:idx + 1])
FrameOf_WithDelimiter(b, idx) == SubSeq(b, 1, idx + 1)

\* bytes(self._buf[:idx])
FrameOf(b, idx) == SubSeq(b, 1, idx)

\* a deletion that removes one byte too many (del self._buf[:idx + 2])
Remainder_OneTooMany(b, idx) == SubSeq(b, idx + 3, Len(b))

\* the buffer after del self._buf[:idx + 1]
Remainder(b, idx) == SubSeq(b, idx + 2, Len(b))

\* an encoder that accepts every code point below 256 (latin-1)
IsAscii_Latin1(s) == \A i \in 1..Len(s) : s[i] < 256

\* str.encode("ascii", errors="strict") succeeds iff every code point is < 128
IsAscii(s) == \A i \in 1..Len(s) : s[i] < 128

\* two decimal digits, zero padded (%H, %M and %S of strftime)
TwoDigits(n) == <<48 + (n \div 10), 48 + (n % 10)>>

\* now.strftime("%H:%M:%S")
StrfTime(t) == TwoDigits(t[1]) \o <<58>> \o TwoDigits(t[2]) \o <<58>> \o TwoDigits(t[3])

\* f"time={hhmmss}"
TimeSetLine(t) == <<116, 105, 109, 101, 61>> \o StrfTime(t)

\* "time"
TimeQueryLine == <<116, 105, 109, 101>>

\* a payload terminated by CR LF instead of the single delimiter
Payload_CRLF(line) == line \o <<FRAME_DELIM, 10>>

\* (line + "\r")
Payload(line) == line \o <<FRAME_DELIM>>

\* -------------------------------------------------------------- initial

Init ==
    /\ serial_port = 0
    /\ reader = 0
    /\ fgpc = "idle"
    /\ fgarg = <<>>
    /\ calls = 0
    /\ log = <<>>
    /\ exc = "none"
    /\ port = [h \in Handles |-> "unopened"]
    /\ tx = [h \in Handles |-> <<>>]
    /\ rpc = [r \in Readers |-> "none"]
    /\ ser = [r \in Readers |-> 0]
    /\ stop = [r \in Readers |-> FALSE]
    /\ buf = [r \in Readers |-> <<>>]
    /\ rx = [r \in Readers |-> <<>>]
    /\ events = [r \in Readers |-> <<>>]

\* ------------------------------------------------ SerialReader (thread r)

Emit(r, e) == events' = [events EXCEPT ![r] = Append(@, e)]

\* run: self.info.emit("RX thread iniciado.")
ReaderStart(r) ==
    /\ rpc[r] = "start"
    /\ Emit(r, <<"info", "RX thread iniciado.">>)
    /\ rpc' = [rpc EXCEPT ![r] = "loop"]
    /\ UNCHANGED <<ctl, ser, stop, buf, rx>>

\* a loop test that never looks at the stop flag (while True)
ReaderLoop_IgnoresStop(r) ==
    /\ rpc[r] = "loop"
    /\ rpc' = [rpc EXCEPT ![r] = "read"]
    /\ UNCHANGED <<ctl, ser, stop, buf, rx, events>>

\* run: while not self._stop
ReaderLoop(r) ==
    /\ rpc[r] = "loop"
    /\ rpc' = [rpc EXCEPT ![r] = IF stop[r] THEN "finally" ELSE "read"]
    /\ UNCHANGED <<ctl, ser, stop, buf, rx, events>>

\* bytes read so far by all readers
RxTotal == LET S[n \in 0..MaxOpen] == IF n = 0 THEN 0 ELSE S[n - 1] + Len(rx[n])
           IN  S[MaxOpen]

\* a read error on which the reader also releases the handle and resets the
\* controller's serial_port
ReaderReadError_Disconnects(r) ==
    /\ rpc[r] = "read"
    /\ Emit(r, <<"error", "ERROR leyendo serial">>)
    /\ rpc' = [rpc EXCEPT ![r] = "finally"]
    /\ port' = [port EXCEPT ![ser[r]] = "closed"]
    /\ serial_port' = IF serial_port = ser[r] THEN 0 ELSE serial_port
    /\ UNCHANGED <<reader, fgpc, fgarg, calls, log, exc, tx, ser, stop, buf, rx>>

\* a read error that is reported but does not leave the loop (continue
\* instead of break)
ReaderReadError_Continue(r) ==
    /\ rpc[r] = "read"
    /\ Len(events[r]) < MaxRx + 4
    /\ Emit(r, <<"error", "ERROR leyendo serial">>)
    /\ rpc' = [rpc EXCEPT ![r] = "loop"]
    /\ UNCHANGED <<ctl, ser, stop, buf, rx>>

\* run: data = self.ser.read(4096) raises (always on a closed handle, and
\* possibly on an open one): emit error, break
ReaderReadError(r) ==
    /\ rpc[r] = "read"
    /\ Emit(r, <<"error", "ERROR leyendo serial">>)
    /\ rpc' = [rpc EXCEPT ![r] = "finally"]
    /\ UNCHANGED <<ctl, ser, stop, buf, rx>>

\* run: the read returns no data; msleep(2) and back to the loop test
ReaderReadEmpty(r) ==
    /\ rpc[r] = "read"
    /\ port[ser[r]] = "open"
    /\ rpc' = [rpc EXCEPT ![r] = "loop"]
    /\ UNCHANGED <<ctl, ser, stop, buf, rx, events>>

\* run: the read returns data; self._buf.extend(data)
ReaderReadData(r) ==
    /\ rpc[r] = "read"
    /\ port[ser[r]] = "open"
    /\ \E data \in SeqsOf(Alphabet, 1, MaxChunk) :
          /\ RxTotal + Len(data) <= MaxRx
          /\ buf' = [buf EXCEPT ![r] = @ \o data]
          /\ rx' = [rx EXCEPT ![r] = @ \o data]
    /\ rpc' = [rpc EXCEPT ![r] = "scan"]
    /\ UNCHANGED <<ctl, ser, stop, events>>

\* run: one pass of the inner while True
ReaderScan(r) ==
    /\ rpc[r] = "scan"
    /\ LET idx == Find(buf[r]) IN
          IF idx < 0
          THEN /\ rpc' = [rpc EXCEPT ![r] = "loop"]
               /\ UNCHANGED <<buf, events>>
          ELSE /\ Emit(r, <<"frame", FrameOf(buf[r], idx)>>)
               /\ buf' = [buf EXCEPT ![r] = Remainder(@, idx)]
               /\ UNCHANGED rpc
    /\ UNCHANGED <<ctl, ser, stop, rx>>

\* run: finally: self.info.emit("RX thread detenido.")
ReaderFinally(r) ==
    /\ rpc[r] = "finally"
    /\ Emit(r, <<"info", "RX thread detenido.">>)
    /\ rpc' = [rpc EXCEPT ![r] = "done"]
    /\ UNCHANGED <<ctl, ser, stop, buf, rx>>

\* ------------------------------------------- AppController (foreground)

\* the foreground thread enters an operation (a button click, aboutToQuit)
Call(op) ==
    /\ fgpc = "idle"
    /\ calls < MaxCalls
    /\ calls' = calls + 1
    /\ fgpc' = op
    /\ fgarg' = <<>>
    /\ log' = <<>>
    /\ exc' = "none"
    /\ UNCHANGED <<serial_port, reader, port, tx, rdr>>

\* the foreground thread enters send_line(line)
CallSendLine(line) ==
    /\ fgpc = "idle"
    /\ calls < MaxCalls
    /\ calls' = calls + 1
    /\ fgpc' = "send_line"
    /\ fgarg' = line
    /\ log' = <<>>
    /\ exc' = "none"
    /\ UNCHANGED <<serial_port, reader, port, tx, rdr>>

\* a send_line whose not-connected branch logs but does not return, and so
\* goes on to self.serial_port.write with serial_port None
SendLine_NoReturn(line, next) ==
    /\ fgpc' = next
    /\ IF serial_port = 0
       THEN /\ log' = Append(log, "TX fallo: no conectado.")
            /\ exc' = "AttributeError"
            /\ UNCHANGED tx
       ELSE IF ~(\A i \in 1..Len(line) : line[i] < 128)
       THEN /\ exc' = "UnicodeEncodeError"
            /\ UNCHANGED <<tx, log>>
       ELSE \E ok \in BOOLEAN :
            /\ tx' = [tx EXCEPT ![serial_port] = Append(@, line \o <<FRAME_DELIM>>)]
            /\ log' = Append(log, IF ok THEN "TX" ELSE "ERROR TX")
            /\ UNCHANGED exc

\* send_line(line), whole; continues at pc next
SendLine(line, next) ==
    /\ fgpc' = next
    /\ IF serial_port = 0
       THEN /\ log' = Append(log, "TX fallo: no conectado.")
            /\ UNCHANGED <<tx, exc>>
       ELSE IF ~IsAscii(Payload(line))
       THEN /\ exc' = "UnicodeEncodeError"
            /\ UNCHANGED <<tx, log>>
       ELSE \E ok \in BOOLEAN :
            /\ tx' = [tx EXCEPT ![serial_port] = Append(@, Payload(line))]
            /\ log' = Append(log, IF ok THEN "TX" ELSE "ERROR TX")
            /\ UNCHANGED exc

\* operator-issued send_line
SendLineOp ==
    /\ fgpc = "send_line"
    /\ SendLine(fgarg, "idle")
    /\ fgarg' = <<>>
    /\ UNCHANGED <<serial_port, reader, calls, port, rdr>>

\* a start_reader whose new reader takes over the accumulator of the reader
\* before it instead of starting with an empty one
StartReader_ReusesBuffer(h) ==
    IF h = 0 \/ reader # 0
    THEN UNCHANGED <<reader, rdr>>
    ELSE LET r == Cardinality({q \in Readers : rpc[q] # "none"}) + 1 IN
         /\ reader' = r
         /\ rpc' = [rpc EXCEPT ![r] = "start"]
         /\ ser' = [ser EXCEPT ![r] = h]
         /\ stop' = [stop EXCEPT ![r] = FALSE]
         /\ buf' = [buf EXCEPT ![r] = IF r > 1 THEN buf[r - 1] ELSE <<>>]
         /\ UNCHANGED <<rx, events>>

\* start_reader(), called with self.serial_port = h
StartReader(h) ==
    IF h = 0 \/ reader # 0
    THEN UNCHANGED <<reader, rdr>>
    ELSE LET r == Cardinality({q \in Readers : rpc[q] # "none"}) + 1 IN
         /\ reader' = r
         /\ rpc' = [rpc EXCEPT ![r] = "start"]
         /\ ser' = [ser EXCEPT ![r] = h]
         /\ stop' = [stop EXCEPT ![r] = FALSE]
         /\ buf' = [buf EXCEPT ![r] = <<>>]
         /\ UNCHANGED <<rx, events>>

\* a connect_serial without its already-connected test
AlreadyConnected_Never == FALSE

\* connect_serial: if self.serial_port is not None
AlreadyConnected == serial_port # 0

\* connect_serial: log "Ya estoy conectado." and return
ConnectAlready ==
    /\ AlreadyConnected
    /\ log' = Append(log, "Ya estoy conectado.")
    /\ fgpc' = "idle"
    /\ UNCHANGED <<serial_port, reader, port, rdr>>

\* connect_serial: port_combo.currentData() is empty: log and return
ConnectNoPort ==
    /\ ~AlreadyConnected
    /\ log' = Append(log, "No hay puerto seleccionado.")
    /\ fgpc' = "idle"
    /\ UNCHANGED <<serial_port, reader, port, rdr>>

\* a failed open that logs but does not return, and so goes on to the
\* handshake
ConnectOpenFailed_NoReturn ==
    /\ serial_port = 0
    /\ serial_port' = 0
    /\ log' = Append(log, "ERROR al conectar")
    /\ fgpc' = "handshake1"
    /\ UNCHANGED <<reader, port, rdr>>

\* connect_serial: serial.Serial(...) raises: serial_port = None, log, return
ConnectOpenFailed ==
    /\ ~AlreadyConnected
    /\ serial_port' = 0
    /\ log' = Append(log, "ERROR al conectar")
    /\ fgpc' = "idle"
    /\ UNCHANGED <<reader, port, rdr>>

\* a connect_serial that goes to the handshake without start_reader()
ConnectOpened_NoReader ==
    LET h == Cardinality({q \in Handles : port[q] # "unopened"}) + 1 IN
    /\ serial_port = 0
    /\ h <= MaxOpen
    /\ serial_port' = h
    /\ port' = [port EXCEPT ![h] = "open"]
    /\ log' = Append(log, "Conectado")
    /\ fgpc' = "handshake1"
    /\ UNCHANGED <<reader, rdr>>

\* connect_serial: serial.Serial(...) returns handle h; log; start_reader()
ConnectOpened ==
    LET h == Cardinality({q \in Handles : port[q] # "unopened"}) + 1 IN
    /\ ~AlreadyConnected
    /\ h <= MaxOpen
    /\ serial_port' = h
    /\ port' = [port EXCEPT ![h] = "open"]
    /\ log' = Append(log, "Conectado")
    /\ StartReader(h)
    /\ fgpc' = "handshake1"

\* connect_serial up to and including start_reader()
ConnectSerial ==
    /\ fgpc = "connect_serial"
    /\ UNCHANGED <<fgarg, calls, exc, tx>>
    /\ \/ ConnectAlready
       \/ ConnectNoPort
       \/ ConnectOpenFailed
       \/ ConnectOpened

\* a handshake that undoes the connection when its first write fails
Handshake1_RollbackOnError ==
    /\ fgpc = "handshake1"
    /\ \E now \in Clock, ok \in BOOLEAN :
          /\ tx' = [tx EXCEPT ![serial_port] = Append(@, Payload(TimeSetLine(now)))]
          /\ log' = Append(log, IF ok THEN "TX" ELSE "ERROR TX")
          /\ IF ok
             THEN /\ fgpc' = "handshake2"
                  /\ UNCHANGED <<serial_port, port>>
             ELSE /\ fgpc' = "idle"
                  /\ port' = [port EXCEPT ![serial_port] = "closed"]
                  /\ serial_port' = 0
    /\ UNCHANGED <<reader, fgarg, calls, exc, rdr>>

\* connect_serial: now = datetime.now(); self.send_line(f"time={hhmmss}")
Handshake1 ==
    /\ fgpc = "handshake1"
    /\ \E now \in Clock : SendLine(TimeSetLine(now), "handshake2")
    /\ UNCHANGED <<serial_port, reader, fgarg, calls, port, rdr>>

\* a handshake that gives up after a failed first write
Handshake2_SkipAfterError ==
    /\ fgpc = "handshake2"
    /\ IF log[Len(log)] = "ERROR TX"
       THEN /\ fgpc' = "idle"
            /\ UNCHANGED <<tx, log, exc>>
       ELSE \E ok \in BOOLEAN :
            /\ fgpc' = "idle"
            /\ tx' = [tx EXCEPT ![serial_port] = Append(@, <<116, 105, 109, 101, 13>>)]
            /\ log' = Append(log, IF ok THEN "TX" ELSE "ERROR TX")
            /\ UNCHANGED exc
    /\ UNCHANGED <<serial_port, reader, fgarg, calls, port, rdr>>

\* connect_serial: _time.sleep(0.02); self.send_line("time")
Handshake2 ==
    /\ fgpc = "handshake2"
    /\ SendLine(TimeQueryLine, "idle")
    /\ UNCHANGED <<serial_port, reader, fgarg, calls, port, rdr>>

\* stop_reader up to self.reader.stop(), entered with the foreground at pc
StopReader ==
    IF reader = 0
    THEN /\ fgpc' = "close"
         /\ UNCHANGED stop
    ELSE /\ stop' = [stop EXCEPT ![reader] = TRUE]
         /\ fgpc' = "wait"

\* a disconnect_serial without its not-connected test
DisconnectSerial_NoGuard ==
    /\ fgpc = "disconnect_serial"
    /\ StopReader
    /\ UNCHANGED <<serial_port, reader, fgarg, calls, log, exc, port, tx, rpc, ser, buf, rx, events>>

\* disconnect_serial up to self.reader.stop()
DisconnectSerial ==
    /\ fgpc = "disconnect_serial"
    /\ IF serial_port = 0
       THEN /\ log' = Append(log, "No estoy conectado.")
            /\ fgpc' = "idle"
            /\ UNCHANGED stop
       ELSE /\ StopReader
            /\ UNCHANGED log
    /\ UNCHANGED <<serial_port, reader, fgarg, calls, exc, port, tx, rpc, ser, buf, rx, events>>

\* shutdown: disconnect_serial() if connected
Shutdown ==
    /\ fgpc = "shutdown"
    /\ IF serial_port = 0
       THEN /\ fgpc' = "idle"
            /\ UNCHANGED stop
       ELSE StopReader
    /\ UNCHANGED <<serial_port, reader, fgarg, calls, log, exc, port, tx, rpc, ser, buf, rx, events>>

\* a stop_reader that keeps its reference when the wait is over
WaitReader_KeepsReader ==
    /\ fgpc = "wait"
    /\ fgpc' = "close"
    /\ UNCHANGED <<serial_port, reader, fgarg, calls, log, exc, port, tx, rdr>>

\* stop_reader: self.reader.wait(1000) returns, because the thread has
\* finished or because the second has passed; self.reader = None
WaitReader ==
    /\ fgpc = "wait"
    /\ reader' = 0
    /\ fgpc' = "close"
    /\ UNCHANGED <<serial_port, fgarg, calls, log, exc, port, tx, rdr>>

\* a close without the finally clause: when close() raises, serial_port is
\* left set
ClosePort_NoFinally ==
    /\ fgpc = "close"
    /\ port' = [port EXCEPT ![serial_port] = "closed"]
    /\ \E raised \in BOOLEAN :
          /\ log' = (IF raised THEN Append(log, "ERROR al cerrar puerto") ELSE log)
                    \o <<"Desconectado">>
          /\ serial_port' = IF raised THEN serial_port ELSE 0
    /\ fgpc' = "idle"
    /\ UNCHANGED <<reader, fgarg, calls, exc, tx, rdr>>

\* disconnect_serial: self.serial_port.close(), which may raise; finally
\* self.serial_port = None; log
ClosePort ==
    /\ fgpc = "close"
    /\ port' = [port EXCEPT ![serial_port] = "closed"]
    /\ \E raised \in BOOLEAN :
          log' = (IF raised THEN Append(log, "ERROR al cerrar puerto") ELSE log)
                 \o <<"Desconectado">>
    /\ serial_port' = 0
    /\ fgpc' = "idle"
    /\ UNCHANGED <<reader, fgarg, calls, exc, tx, rdr>>

Next ==
    \/ \E op \in {"connect_serial", "disconnect_serial", "shutdown"} : Call(op)
    \/ \E line \in Lines : CallSendLine(line)
    \/ SendLineOp
    \/ ConnectSerial
    \/ Handshake1
    \/ Handshake2
    \/ DisconnectSerial
    \/ Shutdown
    \/ WaitReader
    \/ ClosePort
    \/ \E r \in Readers : ReaderStart(r)
    \/ \E r \in Readers : ReaderLoop(r)
    \/ \E r \in Readers : ReaderReadError(r)
    \/ \E r \in Readers : ReaderReadEmpty(r)
    \/ \E r \in Readers : ReaderReadData(r)
    \/ \E r \in Readers : ReaderScan(r)
    \/ \E r \in Readers : ReaderFinally(r)

Spec == Init /\ [][Next]_vars

\* one step of reader thread r
ReaderStep(r) ==
    \/ ReaderStart(r)
    \/ ReaderLoop(r)
    \/ ReaderReadError(r)
    \/ ReaderReadEmpty(r)
    \/ ReaderReadData(r)
    \/ ReaderScan(r)
    \/ ReaderFinally(r)

\* a started thread keeps being scheduled: its non-blocking read returns and
\* its next step is eventually taken
FairSpec == Spec /\ \A r \in Readers : WF_vars(ReaderStep(r))

\* ------------------------------------------------------------ properties

\* the frames reader r has emitted, in order
Frames(r) ==
    LET fs == SelectSeq(events[r], LAMBDA e : e[1] = "frame")
    IN  [k \in 1..Len(fs) |-> fs[k][2]]

\* positions of the delimiters of a byte sequence
Delims(s) == {i \in 1..Len(s) : s[i] = 13}

\* position of the k-th delimiter of s (0 for k = 0)
DelimAt(s, k) ==
    IF k = 0 THEN 0
    ELSE CHOOSE i \in Delims(s) : Cardinality({j \in Delims(s) : j <= i}) = k

\* s split at its delimiters, delimiters and unterminated tail dropped
CompleteFrames(s) ==
    [k \in 1..Cardinality(Delims(s)) |->
        SubSeq(s, DelimAt(s, k - 1) + 1, DelimAt(s, k) - 1)]

\* the frames of fs, each followed by one delimiter, concatenated
RECURSIVE Rejoin(_)
Rejoin(fs) == IF fs = <<>> THEN <<>> ELSE Head(fs) \o <<13>> \o Rejoin(Tail(fs))

\* reader r is at a loop-iteration boundary: no chunk is being scanned
AtBoundary(r) == rpc[r] \in {"loop", "read", "finally", "done"}

\* C1: whatever the chunks the reads returned, the frames a reader has
\* emitted once a chunk is fully scanned are, in order, the pieces of the
\* whole stream read so far cut at its delimiters, without the delimiters
\* and without the unterminated tail.
C1_FrameIntegrity ==
    \A r \in Readers : AtBoundary(r) => Frames(r) = CompleteFrames(rx[r])

\* a frame longer than any single chunk (so its bytes and its delimiter came
\* in separate reads) has been emitted
C1_Witness ==
    \E r \in Readers :
        /\ AtBoundary(r)
        /\ rx[r] = <<97, 97, 13>>
        /\ Frames(r) = << <<97, 97>> >>

\* C2: at every loop-iteration boundary the emitted frames, each followed by
\* one delimiter, followed by the accumulator, are exactly the bytes read.
C2_NoLossNoDuplication ==
    \A r \in Readers : AtBoundary(r) => Rejoin(Frames(r)) \o buf[r] = rx[r]

\* two frames emitted (in at least two reads) and an unterminated byte left
\* in the accumulator
C2_Witness ==
    \E r \in Readers :
        /\ AtBoundary(r)
        /\ Len(Frames(r)) = 2
        /\ buf[r] = <<97>>
        /\ rx[r] = <<13, 97, 13, 97>>

\* C3: a handle is closed only after the reader bound to it has terminated,
\* so no reader is ever at (or before) a read of a closed handle.
C3_NoUseAfterClose ==
    \A r \in Readers :
        (rpc[r] # "none" /\ port[ser[r]] = "closed") => rpc[r] = "done"

\* C4: at most one SerialReader thread is running at any time.
C4_SingleReader ==
    Cardinality({r \in Readers : rpc[r] \notin {"none", "done"}}) <= 1

\* "time=09:05:00\r" and "time=23:59:58\r": the first handshake payload for
\* each time of Clock
TimeSetPayloads ==
    { <<116, 105, 109, 101, 61, 48, 57, 58, 48, 53, 58, 48, 48, 13>>,
      <<116, 105, 109, 101, 61, 50, 51, 58, 53, 57, 58, 53, 56, 13>> }

\* the foreground is inside the handshake of handle h
InHandshake(h) == serial_port = h /\ fgpc \in {"handshake1", "handshake2"}

\* C5: on every opened handle the first write is "time=HH:MM:SS\r" and the
\* second is "time\r"; both have been made when connect_serial returns,
\* whether or not the first failed, and nothing else is written before them.
C5_Handshake ==
    \A h \in Handles :
        port[h] # "unopened" =>
            /\ Len(tx[h]) >= 1 => tx[h][1] \in TimeSetPayloads
            /\ Len(tx[h]) >= 2 => tx[h][2] = <<116, 105, 109, 101, 13>>
            /\ ~InHandshake(h) => Len(tx[h]) >= 2
            /\ (serial_port = h /\ fgpc = "handshake1") => Len(tx[h]) = 0
            /\ (serial_port = h /\ fgpc = "handshake2") => Len(tx[h]) = 1

\* connect_serial has returned after a failed first and a successful second
\* handshake write
C5_Witness ==
    /\ fgpc = "idle"
    /\ serial_port # 0
    /\ log = <<"Conectado", "ERROR TX", "TX">>
    /\ Len(tx[serial_port]) = 2

\* the step that runs the body of foreground operation op
BodyStep(op) == fgpc = op /\ fgpc' # op

\* C6: send_line while serial_port is None logs the not-connected failure,
\* writes on no handle and leaves serial_port and reader as they were.
C6_GuardedTransmit ==
    [][(BodyStep("send_line") /\ serial_port = 0) =>
            /\ log' = <<"TX fallo: no conectado.">>
            /\ exc' = "none"
            /\ fgpc' = "idle"
            /\ UNCHANGED <<tx, port, serial_port, reader>>]_vars

\* send_line has failed as not connected after a session was closed
C6_Witness ==
    /\ fgpc = "idle"
    /\ log = <<"TX fallo: no conectado.">>
    /\ serial_port = 0
    /\ port[1] = "closed"
    /\ Len(tx[1]) >= 2

\* C7: send_line while connected with a line holding a character outside
\* 7-bit ASCII ends with the encoding error, makes no write and leaves
\* serial_port, reader and the handle as they were.
C7_EncodingRejection ==
    [][(/\ BodyStep("send_line")
        /\ serial_port # 0
        /\ \E i \in 1..Len(fgarg) : fgarg[i] > 127) =>
            /\ exc' = "UnicodeEncodeError"
            /\ log' = <<>>
            /\ UNCHANGED <<tx, port, serial_port, reader>>]_vars

\* a connected send_line has ended with the encoding error
C7_Witness ==
    /\ fgpc = "idle"
    /\ exc = "UnicodeEncodeError"
    /\ serial_port # 0
    /\ reader # 0

\* C8: disconnect_serial while serial_port is None only logs: it closes no
\* handle, stops no reader, raises nothing and changes no state.
C8_IdempotentClose ==
    [][(BodyStep("disconnect_serial") /\ serial_port = 0) =>
            /\ log' = <<"No estoy conectado.">>
            /\ exc' = "none"
            /\ fgpc' = "idle"
            /\ UNCHANGED <<serial_port, reader, port, tx, rdr>>]_vars

\* a close while disconnected has returned, after a session whose reader
\* had ended by itself on a read error
C8_Witness ==
    /\ fgpc = "idle"
    /\ log = <<"No estoy conectado.">>
    /\ port[1] = "closed"
    /\ rpc[1] = "done"
    /\ \E k \in 1..Len(events[1]) : events[1][k][1] = "error"

\* C9: connect_serial while serial_port is set only logs "already
\* connected": no handle is opened, no reader started, nothing written; and
\* at most one handle is open in every state.
C9_OpenWhileConnected ==
    /\ [](Cardinality({h \in Handles : port[h] = "open"}) <= 1)
    /\ [][(BodyStep("connect_serial") /\ serial_port # 0) =>
            /\ log' = <<"Ya estoy conectado.">>
            /\ fgpc' = "idle"
            /\ UNCHANGED <<serial_port, reader, port, tx, rdr>>]_vars

\* connect_serial has returned "already connected"
C9_Witness ==
    /\ fgpc = "idle"
    /\ log = <<"Ya estoy conectado.">>
    /\ serial_port # 0
    /\ port[serial_port] = "open"

\* C10: when opening the handle fails, connect_serial logs the error and
\* returns with serial_port None and reader None, no handle opened, no
\* reader started and nothing written; the foreground is free for a later
\* connect_serial.
C10_OpenFailure ==
    [][(BodyStep("connect_serial") /\ log' = <<"ERROR al conectar">>) =>
            /\ serial_port' = 0
            /\ reader' = 0
            /\ fgpc' = "idle"
            /\ UNCHANGED <<port, tx, rdr>>]_vars

\* an open has failed after an earlier session was closed: no second handle,
\* no second reader
C10_Witness ==
    /\ fgpc = "idle"
    /\ log = <<"ERROR al conectar">>
    /\ serial_port = 0
    /\ reader = 0
    /\ port = <<"closed", "unopened">>
    /\ rpc[2] = "none"

\* the step is a write of send_line (operator-issued or of the handshake)
\* that logged outcome msg
WriteStep(msg) ==
    /\ fgpc \in {"send_line", "handshake1", "handshake2"}
    /\ fgpc' # fgpc
    /\ log' = Append(log, msg)

\* C11: a write that raises in send_line, in an operator command or in
\* either handshake command, is logged and leaves the connection as it was:
\* same handle, still open, same reader, not stopped; after a failed
\* handshake write connect_serial goes on.
C11_WriteFailureKeepsState ==
    [][WriteStep("ERROR TX") =>
            /\ serial_port # 0
            /\ reader # 0
            /\ port[serial_port] = "open"
            /\ UNCHANGED <<serial_port, reader, port, rdr, exc>>
            /\ fgpc = "handshake1" => fgpc' = "handshake2"
            /\ fgpc \in {"handshake2", "send_line"} => fgpc' = "idle"]_vars

\* both handshake writes have failed and the connection stands, its reader
\* running
C11_Witness ==
    /\ fgpc = "idle"
    /\ log = <<"Conectado", "ERROR TX", "ERROR TX">>
    /\ serial_port # 0
    /\ port[serial_port] = "open"
    /\ reader # 0
    /\ rpc[reader] = "read"
    /\ ~stop[reader]

\* C12: a successful operator send_line makes exactly one write, on the
\* connected handle, appended after the writes made before, whose payload is
\* the command's bytes followed by one 0x0D; no other handle is written.
C12_TransmitFraming ==
    [][(BodyStep("send_line") /\ log' = <<"TX">>) =>
            /\ serial_port # 0
            /\ tx'[serial_port] = Append(tx[serial_port], fgarg \o <<13>>)
            /\ \A h \in Handles : h # serial_port => tx'[h] = tx[h]]_vars

\* the command "a" has been sent after the handshake
C12_Witness ==
    /\ fgpc = "idle"
    /\ log = <<"TX">>
    /\ serial_port # 0
    /\ Len(tx[serial_port]) = 3
    /\ tx[serial_port][3] = <<97, 13>>

\* the kinds of the events reader r has emitted
Kinds(r) ==
    [k \in 1..Len(events[r]) |->
        IF events[r][k] = <<"info", "RX thread iniciado.">> THEN "started"
        ELSE IF events[r][k] = <<"info", "RX thread detenido.">> THEN "stopped"
        ELSE events[r][k][1]]

\* reader r has emitted an error event
HasError(r) == \E k \in 1..Len(events[r]) : events[r][k][1] = "error"

\* C13: the events of a reader are one ReaderStarted, then frames, then at
\* most one ReaderError, then one ReaderStopped, which is emitted exactly
\* when the thread ends; after a ReaderError the reader neither reads nor
\* emits a frame again.
C13_ReaderEventStream ==
    \A r \in Readers :
        LET ks == Kinds(r)
            n  == Len(ks)
        IN  /\ (rpc[r] \in {"none", "start"}) <=> (n = 0)
            /\ \A k \in 1..n : (ks[k] = "started") <=> (k = 1)
            /\ \A k \in 1..n : ks[k] = "stopped" => k = n
            /\ (rpc[r] = "done") <=> (n >= 2 /\ ks[n] = "stopped")
            /\ \A k \in 1..n :
                  ks[k] = "error" =>
                      /\ k = n \/ (k = n - 1 /\ ks[n] = "stopped")
                      /\ rpc[r] \in {"finally", "done"}

\* a reader has ended after a frame and a read error
C13_Witness ==
    \E r \in Readers :
        /\ rpc[r] = "done"
        /\ Kinds(r) = <<"started", "frame", "error", "stopped">>

\* nothing is in progress: the foreground is idle and every reader thread
\* that was started has ended
Quiescent == fgpc = "idle" /\ \A q \in Readers : rpc[q] \in {"none", "done"}

\* C14 (as stated): once the reader has ended on a read error and nothing is
\* left in progress, the connection on its handle has been given up, with
\* no operator-issued close.
C14_ReadFailureForcesDisconnect ==
    \A r \in Readers : (Quiescent /\ HasError(r)) => serial_port # ser[r]

\* C14 (amended): a read error only ends the reader; the connection on its
\* handle stays as it is (serial_port set, handle open, reader reference
\* kept) until an operator-issued disconnect_serial or shutdown closes it,
\* and send_line still writes on it.
C14_ReadFailureKeepsConnection ==
    /\ [](\A r \in Readers :
             (HasError(r) /\ serial_port = ser[r] /\ fgpc = "idle") =>
                 (reader = r /\ port[ser[r]] = "open"))
    /\ [][(serial_port # 0 /\ serial_port' # serial_port) =>
             (fgpc = "close" /\ calls > 1)]_vars
    /\ [][(/\ BodyStep("send_line")
           /\ serial_port # 0
           /\ \A i \in 1..Len(fgarg) : fgarg[i] < 128) =>
             Len(tx'[serial_port]) = Len(tx[serial_port]) + 1]_vars

\* the reader has ended on a read error, the connection stands and a
\* command has been written on it
C14_Witness ==
    /\ Quiescent
    /\ serial_port # 0
    /\ reader # 0
    /\ ser[reader] = serial_port
    /\ HasError(reader)
    /\ log = <<"TX">>
    /\ Len(tx[serial_port]) = 3

\* C15: once the stop flag of a reader is set the reader never enters a read
\* again (so it makes at most the read it was already committed to), every
\* pass of the scan that emits a frame shortens the accumulator, and the
\* thread eventually ends, its last event being ReaderStopped.
C15_CooperativeStop ==
    /\ [][\A r \in Readers :
             /\ (stop[r] /\ rpc'[r] = "read") => rpc[r] = "read"
             /\ (rpc[r] = "scan" /\ rpc'[r] = "scan" /\ events'[r] # events[r]) =>
                    Len(buf'[r]) < Len(buf[r])]_vars
    /\ [](\A r \in Readers :
             rpc[r] = "done" =>
                 events[r][Len(events[r])] = <<"info", "RX thread detenido.">>)
    /\ \A r \in Readers : (stop[r] ~> rpc[r] = "done")

\* a stopped reader has ended without a read error, after framing a chunk
\* and leaving an unterminated byte
C15_Witness ==
    \E r \in Readers :
        /\ stop[r]
        /\ rpc[r] = "done"
        /\ ~HasError(r)
        /\ Len(Frames(r)) = 1
        /\ buf[r] = <<97>>

\* C16: a disconnect_serial (also the one of shutdown) entered while
\* connected goes through the wait and the close, neither of which can
\* block, and returns with serial_port None, reader None and the handle
\* closed, whether or not the reader had ended and whether or not close()
\* raised; a connect_serial entered with serial_port None is not refused as
\* already connected.
C16_CloseReachesDisconnected ==
    /\ [][(fgpc \in {"disconnect_serial", "shutdown"} /\ fgpc' # fgpc /\ serial_port # 0) =>
             fgpc' \in {"wait", "close"}]_vars
    /\ [][(fgpc = "wait" /\ fgpc' # fgpc) => (fgpc' = "close" /\ reader' = 0)]_vars
    /\ [][(fgpc = "close" /\ fgpc' # fgpc) =>
             /\ fgpc' = "idle"
             /\ serial_port' = 0
             /\ reader' = 0
             /\ port'[serial_port] = "closed"
             /\ log'[Len(log')] = "Desconectado"]_vars
    /\ [](fgpc = "wait" => ENABLED WaitReader)
    /\ [](fgpc = "close" => (serial_port # 0 /\ ENABLED ClosePort))
    /\ [][(BodyStep("connect_serial") /\ serial_port = 0) =>
             log' # <<"Ya estoy conectado.">>]_vars

\* disconnect_serial has returned after a wait that timed out (the reader
\* has not ended) and a close() that raised
C16_Witness ==
    /\ fgpc = "idle"
    /\ log = <<"ERROR al cerrar puerto", "Desconectado">>
    /\ serial_port = 0
    /\ reader = 0
    /\ port[1] = "closed"
    /\ rpc[1] \notin {"none", "done"}

\* s is a prefix of t
IsPrefix(s, t) == Len(s) <= Len(t) /\ SubSeq(t, 1, Len(s)) = s

\* s is a suffix of t
IsSuffix(s, t) == Len(s) <= Len(t) /\ SubSeq(t, Len(t) - Len(s) + 1, Len(t)) = s

\* C17: a reader starts with an empty accumulator, and in every state its
\* accumulator is a suffix of, and its frames are the first complete frames
\* of, the bytes its own reads returned: nothing left over by an earlier
\* reader is in a later reader's frames.
C17_NoPartialFrameReplay ==
    \A r \in Readers :
        /\ rpc[r] \in {"none", "start"} => (buf[r] = <<>> /\ rx[r] = <<>>)
        /\ IsSuffix(buf[r], rx[r])
        /\ IsPrefix(Frames(r), CompleteFrames(rx[r]))

\* the first reader has ended with an unterminated byte in its accumulator
\* and the second has emitted the frame of its own bytes
C17_Witness ==
    /\ rpc[1] = "done"
    /\ buf[1] = <<97>>
    /\ rx[2] = <<97, 13>>
    /\ Frames(2) = << <<97>> >>

\* C18: when connect_serial reaches its first handshake write the reader of
\* the new handle has been started and nothing has been written; while the
\* foreground is in the handshake (its delay included) the reader can take
\* its next step; and whenever a reader has read a chunk, the complete
\* frames of all bytes read are eventually all emitted, in stream order.
C18_ReaderRunsDuringHandshake ==
    /\ [](fgpc = "handshake1" =>
             /\ serial_port # 0
             /\ reader # 0
             /\ ser[reader] = serial_port
             /\ rpc[reader] # "none"
             /\ tx[serial_port] = <<>>)
    /\ [](\A r \in Readers :
             (fgpc \in {"handshake1", "handshake2"} /\ rpc[r] \notin {"none", "done"}) =>
                 ENABLED ReaderStep(r))
    /\ \A r \in Readers :
          (rpc[r] = "scan") ~> (rpc[r] = "loop" /\ Frames(r) = CompleteFrames(rx[r]))

\* during the handshake's delay, after the first write and before the
\* second, the reader has read two frames and emitted them in order
C18_Witness ==
    /\ fgpc = "handshake2"
    /\ Len(tx[serial_port]) = 1
    /\ rx[reader] = <<97, 13, 13>>
    /\ Frames(reader) = << <<97>>, <<>> >>

\* C19: whenever no foreground operation is in progress, serial_port is
\* None exactly when reader is None, and a reader referred to is the one
\* bound to the handle referred to.
C19_HandleAndReaderTogether ==
    fgpc = "idle" =>
        /\ (serial_port = 0) <=> (reader = 0)
        /\ reader # 0 => ser[reader] = serial_port

\* connect_serial has returned and the reader has since ended on a read
\* error: both references are still set
C19_Witness ==
    /\ fgpc = "idle"
    /\ log = <<"Conectado", "TX", "TX">>
    /\ serial_port # 0
    /\ reader # 0
    /\ rpc[reader] = "done"
    /\ HasError(reader)

\* C20: no emitted frame holds the delimiter; at a loop-iteration boundary
\* the accumulator holds none; and every delimiter read has produced a
\* frame, so that a delimiter directly after another has produced an empty
\* frame.
C20_DelimiterNeverLeaks ==
    \A r \in Readers :
        /\ \A k \in 1..Len(Frames(r)) :
              \A i \in 1..Len(Frames(r)[k]) : Frames(r)[k][i] # 13
        /\ AtBoundary(r) =>
              /\ \A i \in 1..Len(buf[r]) : buf[r][i] # 13
              /\ Len(Frames(r)) = Cardinality(Delims(rx[r]))
              /\ \A i \in 1..(Len(rx[r]) - 1) :
                    (rx[r][i] = 13 /\ rx[r][i + 1] = 13) =>
                        Frames(r)[Cardinality({j \in Delims(rx[r]) : j <= i + 1})] = <<>>

\* two adjacent delimiters after a byte have produced the frame "a" and an
\* empty frame
C20_Witness ==
    \E r \in Readers :
        /\ AtBoundary(r)
        /\ rx[r] = <<97, 13, 13, 97>>
        /\ Frames(r) = << <<97>>, <<>> >>
        /\ buf[r] = <<97>>

====
